---- MODULE Spec2Model ----
(***************************************************************************)
(* A model of sysfs_gpio (src/src/lib.rs): the Pin handle with its         *)
(* export/unexport life cycle and its attribute accessors, and the         *)
(* PinPoller with its epoll based blocking wait.  The kernel side (the sysfs directory of a pin, the      *)
(* export/unexport control files, the value attribute and the epoll        *)
(* facility) is the environment of the program: every system call the     *)
(* code makes is a step whose outcome the kernel decides.                  *)
(***************************************************************************)
EXTENDS Integers, Sequences, FiniteSets, TLC

(***************************************************************************)
(* The universe of the model.                                              *)
(***************************************************************************)
\* pin numbers (Pin.pin_num : u64)
Pins == {17, 18}

\* the Pin handles (or processes) that use the library concurrently
Handles == {1, 2}

\* the owners of a PinPoller (each constructs, polls and drops its own)
Pollers == {1, 2}

\* the texts a read of the value attribute may yield: the kernel's "0\n" and
\* "1\n", another digit, nothing, and text that is no number
Contents == { <<"0", "\n">>, <<"1", "\n">>, <<"2", "\n">>, <<>>, <<"x", "y", "z">> }

\* the timeout_ms arguments of poll: wait for ever, do not wait, wait
Timeouts == {-1, 0, 500}

\* the pollers one owner constructs one after the other
MaxLifetimes == 2

\* the max poll passes to flush_input_from_file
FlushMax == 255

VARIABLES
    exported,   \* [Pins -> BOOLEAN]: /sys/class/gpio/gpio{N} exists
    actors,     \* the handles that act in this run (one: a sequential run)
    pin_num,    \* [Handles -> Pins]: Pin.pin_num of each handle
    call,       \* [Handles -> the call in progress of each handle]
    prev,       \* [Handles -> BOOLEAN]: the handle's last call was export() = Ok
    value,      \* [Pins -> Contents]: what a read of the value attribute yields
    poller,     \* [Pollers -> the PinPoller of each owner, and its call]
    created,    \* [Pollers -> Nat]: epoll contexts the owner's pollers created
    closed,     \* [Pollers -> Nat]: close() calls on those epoll contexts
    last_dir,   \* [Handles -> the Direction of the handle's last call when
                \* that was a set_direction that returned Ok, or "none"]
    run,        \* what this run is made of: the poller owners that act, the
                \* texts the value attribute yields, the timeouts passed to
                \* poll, the pollers an owner constructs, the arguments
                \* the setters are called with
    attr,       \* [Pins -> the direction and edge attributes of the pin]
    flush_call  \* a call of flush_input_from_file on a file of its own

pinVars == <<actors, pin_num, call, prev>>

pollerVars == <<value, poller, created, closed>>

restVars == <<last_dir, run, attr, flush_call>>

vars ==
    <<exported, actors, pin_num, call, prev, value, poller, created, closed,
      last_dir, run, attr, flush_call>>

(***************************************************************************)
(* PinPoller { pin_num, epoll_fd, devfile } and the poll call in progress.  *)
(* st: "none" (no poller), "Ready", "Closed" (dropped).  devfile, epoll:    *)
(* "none", "open", "closed".  at_start: the file position of devfile is 0.  *)
(* The kernel's view of the open value file: stale, it was never read since *)
(* it was opened (a fresh sysfs descriptor polls as priority-readable);     *)
(* edge, an edge event was raised since it was last read from its start.    *)
(* registered, ready: devfile is in the epoll interest list, and on the     *)
(* epoll ready list.  pc, timeout, flushed, woke, res: the call's           *)
(* statement, its argument, the bytes its flush read, what woke its         *)
(* epoll_wait, its result.  close_res, drop_panic: what close(epoll_fd)    *)
(* answered in drop ("none": not called), and whether drop panicked.        *)
(***************************************************************************)
NoPoller ==
    [st |-> "none", pin |-> 0, devfile |-> "none", at_start |-> FALSE,
     epoll |-> "none", registered |-> FALSE, stale |-> FALSE, edge |-> FALSE,
     ready |-> FALSE, pc |-> "idle", timeout |-> 0, flushed |-> 0,
     woke |-> "none", res |-> <<"none">>, close_res |-> "none",
     drop_panic |-> FALSE]

\* a run of one poller owner, with every text, timeout and lifetime, and
\* no setter called
WholeRun ==
    [owners |-> {1}, texts |-> Contents, timeouts |-> Timeouts,
     lives |-> MaxLifetimes, dirs |-> {}, levels |-> {}, edges |-> {}]

\* a run in which no poller is constructed and no setter called
NoRun ==
    [owners |-> {}, texts |-> {}, timeouts |-> {}, lives |-> 0,
     dirs |-> {}, levels |-> {}, edges |-> {}]

\* the attributes of a pin as the kernel exports it: an input, no edge
\* detection
FreshAttr == [direction |-> "in", edge |-> "none"]

\* no call of flush_input_from_file on a file of its own
NoFlush == [pc |-> "idle", dev_file |-> <<>>, max |-> 0, read |-> 0]

(***************************************************************************)
(* Pin: export, unexport, with_exported.                                   *)
(*                                                                         *)
(* A call is a record: op, the public method called; pc, the statement     *)
(* the call is at; ex, body, un, what export, the closure and unexport     *)
(* returned inside this call ("none": not run; "Ok"; or the error);        *)
(* did, the writes to the control files the call issued; res, the value    *)
(* the call returns; again, whether the call is an export() that follows   *)
(* an export() of the same handle that returned Ok.  For the attribute     *)
(* accessors: arg, the argument of a setter; flags, the flags the          *)
(* attribute file was opened with; got, the value a getter returns; after, *)
(* for get_direction, the Direction of the set_direction that returned Ok  *)
(* just before it on the same handle.                                      *)
(***************************************************************************)
NoCall ==
    [op |-> "none", pc |-> "idle", ex |-> "none", body |-> "none", un |-> "none",
     did |-> {}, res |-> "none", again |-> FALSE,
     arg |-> <<>>, flags |-> {}, got |-> <<>>, after |-> "none"]

\* Pin::new: no I/O, the handle only holds the number
Pin_new(n) == n

\* the entry of a public method: export and with_exported begin with
\* export's existence check, unexport with its own
Enter(p, method) ==
    /\ p \in actors
    /\ call[p].pc = "idle"
    /\ call' = [call EXCEPT ![p] =
                  [NoCall EXCEPT !.op = method,
                                 !.again = (method = "export" /\ prev[p]),
                                 !.pc = IF method = "unexport"
                                        THEN "unexport_metadata"
                                        ELSE "export_metadata"]]
    /\ UNCHANGED <<exported, actors, pin_num, prev>>
    /\ UNCHANGED <<pollerVars, restVars>>

\* export has ended with r.  Called directly it returns r; inside
\* with_exported, line 150, try!(self.export()) ends the call on an error
\* and goes on to the closure otherwise
export_result(c, r) ==
    LET d == [c EXCEPT !.ex = r]
    IN  IF c.op = "export"
        THEN [d EXCEPT !.pc = "ret", !.res = IF r = "Ok" THEN "Ok" ELSE "ErrExport"]
        ELSE IF r = "Ok"
             THEN [d EXCEPT !.pc = "closure"]
             ELSE [d EXCEPT !.pc = "ret", !.res = "ErrExport"]

\* with_exported_result with the closure's error returned before the
\* unexport error is looked at
with_exported_result_body_first(body, r) ==
    IF body = "Err"
    THEN "ErrBody"
    ELSE (IF r = "Ok" THEN "Ok" ELSE "ErrUnexport")

\* with_exported, lines 152-153: in both arms try!(self.unexport()) returns
\* the unexport error; otherwise the closure's result is the call's
with_exported_result(body, r) ==
    IF r = "Ok"
    THEN (IF body = "Ok" THEN "Ok" ELSE "ErrBody")
    ELSE "ErrUnexport"

\* unexport has ended with r: called directly it returns r, inside
\* with_exported the match of lines 151-154 decides
unexport_result(c, r) ==
    LET d == [c EXCEPT !.un = r]
    IN  IF c.op = "unexport"
        THEN [d EXCEPT !.pc = "ret", !.res = IF r = "Ok" THEN "Ok" ELSE "ErrUnexport"]
        ELSE [d EXCEPT !.pc = "ret", !.res = with_exported_result(c.body, r)]

\* export_metadata without the existence check: the write is always issued
export_metadata_unchecked(p) ==
    /\ p \in actors
    /\ call[p].pc = "export_metadata"
    /\ call' = [call EXCEPT ![p] = [call[p] EXCEPT !.pc = "export_create"]]
    /\ UNCHANGED <<exported, actors, pin_num, prev>>
    /\ UNCHANGED <<pollerVars, restVars>>

\* export, line 183: fs::metadata of the pin directory; when the directory
\* exists export is done, without a write
export_metadata(p) ==
    /\ p \in actors
    /\ call[p].pc = "export_metadata"
    /\ call' = [call EXCEPT ![p] =
                  IF exported[pin_num[p]]
                  THEN export_result(call[p], "Ok")
                  ELSE [call[p] EXCEPT !.pc = "export_create"]]
    /\ UNCHANGED <<exported, actors, pin_num, prev>>
    /\ UNCHANGED <<pollerVars, restVars>>

\* export, line 184: File::create of the export control file, which the
\* kernel may refuse (EACCES: no privilege, or no sysfs gpio); try!
export_create(p) ==
    /\ p \in actors
    /\ call[p].pc = "export_create"
    /\ \E opened \in BOOLEAN :
         call' = [call EXCEPT ![p] =
                    IF opened
                    THEN [call[p] EXCEPT !.pc = "export_write"]
                    ELSE export_result(call[p], "EACCES")]
    /\ UNCHANGED <<exported, actors, pin_num, prev>>
    /\ UNCHANGED <<pollerVars, restVars>>

\* the kernel's answer to a write of pin number n to the export control
\* file: a pin that is exported already is refused (EBUSY); another pin is
\* exported (Ok) or refused (EINVAL: no such pin, or a pin a driver holds)
KernelExport(n, answer) ==
    /\ answer = "EBUSY" <=> exported[n]
    /\ exported' = IF answer = "Ok" THEN [exported EXCEPT ![n] = TRUE] ELSE exported

\* export, line 185: write_all of the pin number, try! on its result
export_write(p) ==
    /\ p \in actors
    /\ call[p].pc = "export_write"
    /\ \E answer \in {"Ok", "EBUSY", "EINVAL"} :
         /\ KernelExport(pin_num[p], answer)
         /\ call' = [call EXCEPT ![p] =
                       export_result([call[p] EXCEPT !.did = @ \cup {"export_write"}],
                                     answer)]
    /\ UNCHANGED <<actors, pin_num, prev>>
    /\ UNCHANGED <<pollerVars, restVars>>

\* closure with the Err arm returning the error at once, without unexport
closure_err_skips_unexport(p) ==
    /\ p \in actors
    /\ call[p].pc = "closure"
    /\ \E r \in {"Ok", "Err"} :
         call' = [call EXCEPT ![p] =
                    IF r = "Ok"
                    THEN [call[p] EXCEPT !.pc = "unexport_metadata", !.body = r]
                    ELSE [call[p] EXCEPT !.pc = "ret", !.body = r, !.res = "ErrBody"]]
    /\ UNCHANGED <<exported, actors, pin_num, prev>>
    /\ UNCHANGED <<pollerVars, restVars>>

\* with_exported, line 151: the closure runs and returns Ok or Err; both
\* arms of the match go on to unexport
closure(p) ==
    /\ p \in actors
    /\ call[p].pc = "closure"
    /\ \E r \in {"Ok", "Err"} :
         call' = [call EXCEPT ![p] =
                    [call[p] EXCEPT !.pc = "unexport_metadata", !.body = r]]
    /\ UNCHANGED <<exported, actors, pin_num, prev>>
    /\ UNCHANGED <<pollerVars, restVars>>

\* unexport_metadata without the existence check: the write is always issued
unexport_metadata_unchecked(p) ==
    /\ p \in actors
    /\ call[p].pc = "unexport_metadata"
    /\ call' = [call EXCEPT ![p] = [call[p] EXCEPT !.pc = "unexport_create"]]
    /\ UNCHANGED <<exported, actors, pin_num, prev>>
    /\ UNCHANGED <<pollerVars, restVars>>

\* unexport, line 197: fs::metadata of the pin directory; when there is no
\* directory unexport is done, without a write
unexport_metadata(p) ==
    /\ p \in actors
    /\ call[p].pc = "unexport_metadata"
    /\ call' = [call EXCEPT ![p] =
                  IF exported[pin_num[p]]
                  THEN [call[p] EXCEPT !.pc = "unexport_create"]
                  ELSE unexport_result(call[p], "Ok")]
    /\ UNCHANGED <<exported, actors, pin_num, prev>>
    /\ UNCHANGED <<pollerVars, restVars>>

\* unexport_create without try!: a control file that cannot be opened is
\* passed over and unexport returns Ok
unexport_create_unchecked(p) ==
    /\ p \in actors
    /\ call[p].pc = "unexport_create"
    /\ \E opened \in BOOLEAN :
         call' = [call EXCEPT ![p] =
                    IF opened
                    THEN [call[p] EXCEPT !.pc = "unexport_write"]
                    ELSE unexport_result(call[p], "Ok")]
    /\ UNCHANGED <<exported, actors, pin_num, prev>>
    /\ UNCHANGED <<pollerVars, restVars>>

\* unexport, line 198: File::create of the unexport control file; try!
unexport_create(p) ==
    /\ p \in actors
    /\ call[p].pc = "unexport_create"
    /\ \E opened \in BOOLEAN :
         call' = [call EXCEPT ![p] =
                    IF opened
                    THEN [call[p] EXCEPT !.pc = "unexport_write"]
                    ELSE unexport_result(call[p], "EACCES")]
    /\ UNCHANGED <<exported, actors, pin_num, prev>>
    /\ UNCHANGED <<pollerVars, restVars>>

\* the kernel's answer to a write of pin number n to the unexport control
\* file: an exported pin is unexported (Ok) or refused (EINVAL: a pin a
\* driver exported, not sysfs), a pin that is not exported is refused
KernelUnexport(n, answer) ==
    /\ answer = "Ok" => exported[n]
    /\ exported' = IF answer = "Ok" THEN [exported EXCEPT ![n] = FALSE] ELSE exported

\* unexport_write with the number of another pin than the handle's
unexport_write_other_pin(p) ==
    /\ p \in actors
    /\ call[p].pc = "unexport_write"
    /\ \E answer \in {"Ok", "EINVAL"} :
         /\ \E n \in Pins \ {pin_num[p]} : KernelUnexport(n, answer)
         /\ call' = [call EXCEPT ![p] =
                       unexport_result([call[p] EXCEPT !.did = @ \cup {"unexport_write"}],
                                       answer)]
    /\ UNCHANGED <<actors, pin_num, prev>>
    /\ UNCHANGED <<pollerVars, restVars>>

\* unexport, line 199: write_all of the pin number, try! on its result
unexport_write(p) ==
    /\ p \in actors
    /\ call[p].pc = "unexport_write"
    /\ \E answer \in {"Ok", "EINVAL"} :
         /\ KernelUnexport(pin_num[p], answer)
         /\ call' = [call EXCEPT ![p] =
                       unexport_result([call[p] EXCEPT !.did = @ \cup {"unexport_write"}],
                                       answer)]
    /\ UNCHANGED <<actors, pin_num, prev>>
    /\ UNCHANGED <<pollerVars, restVars>>

\* the call returns its result to the caller
Return(p) ==
    /\ p \in actors
    /\ call[p].pc = "ret"
    /\ prev' = [prev EXCEPT ![p] = (call[p].op = "export" /\ call[p].res = "Ok")]
    /\ last_dir' = [last_dir EXCEPT ![p] =
                      IF call[p].op = "set_direction" /\ call[p].res = "Ok"
                      THEN call[p].arg[1]
                      ELSE "none"]
    /\ call' = [call EXCEPT ![p] = NoCall]
    /\ UNCHANGED <<exported, actors, pin_num>>
    /\ UNCHANGED <<pollerVars, run, attr, flush_call>>

export(p) == Enter(p, "export")

unexport(p) == Enter(p, "unexport")

with_exported(p) == Enter(p, "with_exported")

InitPin ==
    /\ exported \in [Pins -> BOOLEAN]
    /\ actors \in {{1}, Handles}
    /\ pin_num \in [Handles -> {Pin_new(n) : n \in Pins}]
    /\ call = [p \in Handles |-> NoCall]
    /\ prev = [p \in Handles |-> FALSE]
    /\ value = [n \in Pins |-> <<"0", "\n">>]
    /\ poller = [q \in Pollers |-> NoPoller]
    /\ created = [q \in Pollers |-> 0]
    /\ closed = [q \in Pollers |-> 0]
    /\ run = NoRun
    /\ attr = [n \in Pins |-> FreshAttr]
    /\ last_dir = [p \in Handles |-> "none"]
    /\ flush_call = NoFlush

NextPin ==
    \E p \in Handles :
        \/ export(p)
        \/ unexport(p)
        \/ with_exported(p)
        \/ export_metadata(p)
        \/ export_create(p)
        \/ export_write(p)
        \/ closure(p)
        \/ unexport_metadata(p)
        \/ unexport_create(p)
        \/ unexport_write(p)
        \/ Return(p)

SpecPin == InitPin /\ [][NextPin]_vars

(***************************************************************************)
(* The value attribute as the code reads it.                               *)
(***************************************************************************)
\* File::read_to_string: everything from the file position to the end of
\* the file; a sysfs attribute is generated by a read at position 0 and a
\* read at its end yields nothing
read_to_string(content, at_start) == IF at_start THEN content ELSE <<>>

\* flush_input_from_file(dev_file, max), lines 86-89: max is only the
\* capacity the String starts with; the number of bytes read is returned
flush_input_from_file(content, at_start, max) ==
    Len(read_to_string(content, at_start))

\* the most bytes a file holds unread when flush_input_from_file is called
MaxUnread == 260

\* the max arguments flush_input_from_file is called with: poll's and two
\* small ones
Maxes == {0, 1, FlushMax}

\* a file of n unread bytes
Bytes(n) == [i \in 1 .. n |-> "x"]

\* flush_input_from_file(&mut dev_file, max) on a file at its start
flush_input(n, max) ==
    /\ flush_call.pc = "call"
    /\ flush_call.dev_file = Bytes(n)
    /\ flush_call.max = max
    /\ flush_call' = [flush_call EXCEPT
                        !.pc = "ret",
                        !.read = flush_input_from_file(flush_call.dev_file, TRUE, max)]
    /\ UNCHANGED <<exported, pinVars, pollerVars, last_dir, run, attr>>

InitFlush ==
    /\ \E n \in 0 .. MaxUnread, max \in Maxes :
         flush_call = [pc |-> "call", dev_file |-> Bytes(n), max |-> max, read |-> 0]
    /\ exported = [n \in Pins |-> FALSE]
    /\ value = [n \in Pins |-> <<"0", "\n">>]
    /\ attr = [n \in Pins |-> FreshAttr]
    /\ actors = {}
    /\ pin_num = [p \in Handles |-> Pin_new(17)]
    /\ call = [p \in Handles |-> NoCall]
    /\ prev = [p \in Handles |-> FALSE]
    /\ last_dir = [p \in Handles |-> "none"]
    /\ poller = [q \in Pollers |-> NoPoller]
    /\ created = [q \in Pollers |-> 0]
    /\ closed = [q \in Pollers |-> 0]
    /\ run = NoRun

NextFlush == \E n \in 0 .. MaxUnread, max \in Maxes : flush_input(n, max)

SpecFlush == InitFlush /\ [][NextFlush]_vars

Digit ==
    ("0" :> 0) @@ ("1" :> 1) @@ ("2" :> 2) @@ ("3" :> 3) @@ ("4" :> 4) @@
    ("5" :> 5) @@ ("6" :> 6) @@ ("7" :> 7) @@ ("8" :> 8) @@ ("9" :> 9)

RECURSIVE Decimal(_)
Decimal(s) == IF s = <<>> THEN 0 ELSE 10 * Decimal(SubSeq(s, 1, Len(s) - 1)) + Digit[s[Len(s)]]

\* str::parse::<u8>: an optional "+", then one digit or more, at most 255
parse_u8(s) ==
    LET digits == IF s # <<>> /\ s[1] = "+" THEN Tail(s) ELSE s
    IN  IF digits = <<>> \/ \E i \in DOMAIN digits : digits[i] \notin DOMAIN Digit
        THEN <<"Err">>
        ELSE IF Decimal(digits) > 255 THEN <<"Err">> ELSE <<"Ok", Decimal(digits)>>

\* get_value_from_file, lines 93-99, after the seek to the start: the whole
\* file is read and s[..1] parsed; s[..1] of an empty string panics
get_value_from_file(content) ==
    LET s == read_to_string(content, TRUE)
    IN  IF Len(s) < 1
        THEN <<"Panic">>
        ELSE parse_u8(SubSeq(s, 1, 1))

(***************************************************************************)
(* Pin: the attribute accessors get_/set_ direction, value, edge.           *)
(***************************************************************************)
\* enum Direction, line 64, and enum Edge, line 67
Direction == {"In", "Out", "High", "Low"}

Edges == {"NoInterrupt", "RisingEdge", "FallingEdge", "BothEdges"}

\* the u8 arguments set_value is called with
Levels == {0, 1, 2, 255}

\* the texts of the attribute files, as their characters
Chars ==
    ("in" :> <<"i", "n">>) @@ ("out" :> <<"o", "u", "t">>) @@
    ("high" :> <<"h", "i", "g", "h">>) @@ ("low" :> <<"l", "o", "w">>) @@
    ("none" :> <<"n", "o", "n", "e">>) @@
    ("rising" :> <<"r", "i", "s", "i", "n", "g">>) @@
    ("falling" :> <<"f", "a", "l", "l", "i", "n", "g">>) @@
    ("both" :> <<"b", "o", "t", "h">>) @@
    ("0" :> <<"0">>) @@ ("1" :> <<"1">>)

Whitespace == {" ", "\t", "\n", "\r"}

\* str::trim: the text without its leading and trailing whitespace
RECURSIVE trim(_)
trim(s) ==
    IF s = <<>> THEN s
    ELSE IF Head(s) \in Whitespace THEN trim(Tail(s))
    ELSE IF s[Len(s)] \in Whitespace THEN trim(SubSeq(s, 1, Len(s) - 1))
    ELSE s

\* File::create, lines 106 and 113: the file is opened for writing only, to
\* be created if it is missing and truncated if it exists
File_create == {"O_WRONLY", "O_CREAT", "O_TRUNC"}

\* open(2) of an attribute of pin n in sysfs: a directory of sysfs takes no
\* new file, so the attribute of a pin that is not exported cannot be
\* opened whatever the flags; O_TRUNC is accepted and leaves the attribute,
\* which is generated on every read, as it is
KernelOpen(n, flags, answer) ==
    /\ answer \in {"Ok", "ENOENT", "EACCES"}
    /\ answer = "ENOENT" <=> ~exported[n]
    /\ UNCHANGED <<exported, value, attr>>

\* what a read of attribute file name of pin n yields
KernelShow(n, name) ==
    CASE name = "direction" -> Append(Chars[attr[n].direction], "\n")
      [] name = "edge" -> Append(Chars[attr[n].edge], "\n")
      [] name = "value" -> value[n]

\* read(2) on a descriptor opened with flags: one that was opened for
\* writing only cannot be read
KernelRead(n, name, flags) ==
    IF "O_WRONLY" \in flags
    THEN <<"Err", "EBADF">>
    ELSE <<"Ok", read_to_string(KernelShow(n, name), TRUE)>>

\* the attribute file each accessor names, lines 211, 240, 255, 278, 286, 306
dev_file_name ==
    ("get_direction" :> "direction") @@ ("set_direction" :> "direction") @@
    ("get_value" :> "value") @@ ("set_value" :> "value") @@
    ("get_edge" :> "edge") @@ ("set_edge" :> "edge")

Getters == {"get_direction", "get_value", "get_edge"}

Setters == {"set_direction", "set_value", "set_edge"}

\* get_direction, lines 213-220: the match on the trimmed text
get_direction_match(s) ==
    LET t == trim(s)
    IN  CASE t = Chars["in"] -> <<"Ok", "In">>
          [] t = Chars["out"] -> <<"Ok", "Out">>
          [] t = Chars["high"] -> <<"Ok", "High">>
          [] t = Chars["low"] -> <<"Ok", "Low">>
          [] OTHER -> <<"Err", "Unexpected">>

\* get_value, lines 257-262
get_value_match(s) ==
    LET t == trim(s)
    IN  CASE t = Chars["1"] -> <<"Ok", 1>>
          [] t = Chars["0"] -> <<"Ok", 0>>
          [] OTHER -> <<"Err", "Unexpected">>

\* get_edge, lines 288-294
get_edge_match(s) ==
    LET t == trim(s)
    IN  CASE t = Chars["none"] -> <<"Ok", "NoInterrupt">>
          [] t = Chars["rising"] -> <<"Ok", "RisingEdge">>
          [] t = Chars["falling"] -> <<"Ok", "FallingEdge">>
          [] t = Chars["both"] -> <<"Ok", "BothEdges">>
          [] OTHER -> <<"Err", "Unexpected">>

\* the text each setter writes, lines 240-245, 274-278, 306-311
set_text(method, x) ==
    CASE method = "set_direction" ->
           (CASE x = "In" -> "in" [] x = "Out" -> "out"
              [] x = "High" -> "high" [] x = "Low" -> "low")
      [] method = "set_value" -> (IF x = 0 THEN "0" ELSE "1")
      [] method = "set_edge" ->
           (CASE x = "NoInterrupt" -> "none" [] x = "RisingEdge" -> "rising"
              [] x = "FallingEdge" -> "falling" [] x = "BothEdges" -> "both")

\* write(2) of text to attribute file name of pin n: the direction
\* attribute takes in, out, high and low, and keeps only in or out, the
\* last three driving the line to 0, 1 and 0; the value attribute takes a
\* level only while the pin is an output; the attributes of a pin that has
\* been unexported since the file was opened are gone
KernelStore(n, name, text, answer) ==
    /\ answer \in {"Ok", "EPERM", "EIO", "ENODEV"}
    /\ answer = "ENODEV" <=> ~exported[n]
    /\ (name = "value" /\ attr[n].direction = "in") => answer # "Ok"
    /\ attr' = IF answer # "Ok" \/ name = "value" THEN attr
               ELSE IF name = "edge" THEN [attr EXCEPT ![n].edge = text]
               ELSE [attr EXCEPT ![n].direction = IF text = "in" THEN "in" ELSE "out"]
    /\ value' = IF answer # "Ok" \/ name = "edge" \/ text = "in" THEN value
                ELSE [value EXCEPT ![n] =
                        IF text \in {"1", "high"} THEN <<"1", "\n">> ELSE <<"0", "\n">>]
    /\ UNCHANGED exported

\* a getter, entered
EnterGet(p, method) ==
    /\ p \in actors
    /\ call[p].pc = "idle"
    /\ call' = [call EXCEPT ![p] =
                  [NoCall EXCEPT !.op = method, !.pc = "read_create",
                                 !.after = IF method = "get_direction"
                                           THEN last_dir[p]
                                           ELSE "none"]]
    /\ UNCHANGED <<exported, actors, pin_num, prev>>
    /\ UNCHANGED <<pollerVars, restVars>>

\* a setter, entered with argument x
EnterSet(p, method, x) ==
    /\ p \in actors
    /\ call[p].pc = "idle"
    /\ call' = [call EXCEPT ![p] =
                  [NoCall EXCEPT !.op = method, !.pc = "write_create", !.arg = <<x>>]]
    /\ UNCHANGED <<exported, actors, pin_num, prev>>
    /\ UNCHANGED <<pollerVars, restVars>>

get_direction(p) == EnterGet(p, "get_direction")

get_value(p) == EnterGet(p, "get_value")

get_edge(p) == EnterGet(p, "get_edge")

set_direction(p) == \E dir \in run.dirs : EnterSet(p, "set_direction", dir)

set_value(p) == \E v \in run.levels : EnterSet(p, "set_value", v)

set_edge(p) == \E edge \in run.edges : EnterSet(p, "set_edge", edge)

\* a run of the accessors alone, with every argument
AttrRun == [NoRun EXCEPT !.dirs = Direction, !.levels = Levels, !.edges = Edges]

\* read_from_device_file, line 113: try!(File::create(&gpio_path))
read_create(p) ==
    /\ p \in actors
    /\ call[p].pc = "read_create"
    /\ \E answer \in {"Ok", "ENOENT", "EACCES"} :
         /\ KernelOpen(pin_num[p], File_create, answer)
         /\ call' = [call EXCEPT ![p] =
                       IF answer = "Ok"
                       THEN [@ EXCEPT !.pc = "read_to_string", !.flags = File_create]
                       ELSE [@ EXCEPT !.pc = "ret", !.res = "ErrIo"]]
    /\ UNCHANGED <<actors, pin_num, prev>>
    /\ UNCHANGED <<poller, created, closed, last_dir, run, flush_call>>

\* read_from_device_file, line 115, try!(dev_file.read_to_string(&mut s)),
\* and the match of the getter on what it returns
read_read_to_string(p) ==
    /\ p \in actors
    /\ call[p].pc = "read_to_string"
    /\ LET c == call[p]
           r == KernelRead(pin_num[p], dev_file_name[c.op], c.flags)
           m == CASE c.op = "get_direction" -> get_direction_match(r[2])
                  [] c.op = "get_value" -> get_value_match(r[2])
                  [] c.op = "get_edge" -> get_edge_match(r[2])
       IN  call' = [call EXCEPT ![p] =
                      IF r[1] = "Err"
                      THEN [c EXCEPT !.pc = "ret", !.res = "ErrIo"]
                      ELSE IF m[1] = "Err"
                      THEN [c EXCEPT !.pc = "ret", !.res = "ErrParse"]
                      ELSE [c EXCEPT !.pc = "ret", !.res = "Ok", !.got = <<m[2]>>]]
    /\ UNCHANGED <<exported, actors, pin_num, prev>>
    /\ UNCHANGED <<pollerVars, restVars>>

\* write_to_device_file, line 106: try!(File::create(&gpio_path))
write_create(p) ==
    /\ p \in actors
    /\ call[p].pc = "write_create"
    /\ \E answer \in {"Ok", "ENOENT", "EACCES"} :
         /\ KernelOpen(pin_num[p], File_create, answer)
         /\ call' = [call EXCEPT ![p] =
                       IF answer = "Ok"
                       THEN [@ EXCEPT !.pc = "write_all", !.flags = File_create]
                       ELSE [@ EXCEPT !.pc = "ret", !.res = "ErrIo"]]
    /\ UNCHANGED <<actors, pin_num, prev>>
    /\ UNCHANGED <<poller, created, closed, last_dir, run, flush_call>>

\* write_to_device_file, line 107: try!(dev_file.write_all(value.as_bytes()))
write_write_all(p) ==
    /\ p \in actors
    /\ call[p].pc = "write_all"
    /\ \E answer \in {"Ok", "EPERM", "EIO", "ENODEV"} :
         /\ KernelStore(pin_num[p], dev_file_name[call[p].op],
                        set_text(call[p].op, call[p].arg[1]), answer)
         /\ call' = [call EXCEPT ![p] =
                       [@ EXCEPT !.pc = "ret",
                                 !.res = IF answer = "Ok" THEN "Ok" ELSE "ErrIo"]]
    /\ UNCHANGED <<actors, pin_num, prev>>
    /\ UNCHANGED <<poller, created, closed, last_dir, run, flush_call>>

InitAttr ==
    /\ exported \in [Pins -> BOOLEAN]
    /\ value \in [Pins -> Contents]
    /\ attr = [n \in Pins |-> FreshAttr]
    /\ actors = {1}
    /\ \E n \in Pins : pin_num = [p \in Handles |-> Pin_new(n)]
    /\ call = [p \in Handles |-> NoCall]
    /\ prev = [p \in Handles |-> FALSE]
    /\ last_dir = [p \in Handles |-> "none"]
    /\ poller = [q \in Pollers |-> NoPoller]
    /\ created = [q \in Pollers |-> 0]
    /\ closed = [q \in Pollers |-> 0]
    /\ run = AttrRun
    /\ flush_call = NoFlush

NextAttr ==
    \E p \in Handles :
        \/ get_direction(p)
        \/ get_value(p)
        \/ get_edge(p)
        \/ set_direction(p)
        \/ set_value(p)
        \/ set_edge(p)
        \/ read_create(p)
        \/ read_read_to_string(p)
        \/ write_create(p)
        \/ write_write_all(p)
        \/ Return(p)

SpecAttr == InitAttr /\ [][NextAttr]_vars

(***************************************************************************)
(* PinPoller: new, poll, drop.                                             *)
(***************************************************************************)
\* PinPoller::new(pin_num), entered: nothing is open yet
PinPoller_new(q) ==
    /\ q \in run.owners
    /\ poller[q].st \in {"none", "Closed"}
    /\ poller[q].pc = "idle"
    /\ created[q] < run.lives
    /\ \E n \in Pins :
         poller' = [poller EXCEPT ![q] = [NoPoller EXCEPT !.pin = n, !.pc = "new_open"]]
    /\ UNCHANGED <<exported, pinVars, restVars, value, created, closed>>

\* new, line 342: File::open of the value attribute, which exists only
\* while the pin is exported; try! returns the error
new_open(q) ==
    /\ poller[q].pc = "new_open"
    /\ \E opened \in BOOLEAN :
         /\ opened => exported[poller[q].pin]
         /\ poller' = [poller EXCEPT ![q] =
                         IF opened
                         THEN [@ EXCEPT !.devfile = "open", !.at_start = TRUE,
                                        !.stale = TRUE, !.pc = "new_epoll_create"]
                         ELSE [@ EXCEPT !.pc = "new_ret", !.res = <<"Err">>]]
    /\ UNCHANGED <<exported, pinVars, restVars, value, created, closed>>

\* new_epoll_create holding the value file as a raw descriptor, which the
\* early return does not close
new_epoll_create_keeps_file(q) ==
    /\ poller[q].pc = "new_epoll_create"
    /\ \E ok \in BOOLEAN :
         /\ poller' = [poller EXCEPT ![q] =
                         IF ok
                         THEN [@ EXCEPT !.epoll = "open", !.pc = "new_epoll_ctl"]
                         ELSE [@ EXCEPT !.pc = "new_ret", !.res = <<"Err">>]]
         /\ created' = [created EXCEPT ![q] = IF ok THEN @ + 1 ELSE @]
    /\ UNCHANGED <<exported, pinVars, restVars, value, closed>>

\* new, line 344: epoll_create; try! returns the error and drops devfile
new_epoll_create(q) ==
    /\ poller[q].pc = "new_epoll_create"
    /\ \E ok \in BOOLEAN :
         /\ poller' = [poller EXCEPT ![q] =
                         IF ok
                         THEN [@ EXCEPT !.epoll = "open", !.pc = "new_epoll_ctl"]
                         ELSE [@ EXCEPT !.devfile = "closed", !.pc = "new_ret",
                                        !.res = <<"Err">>]]
         /\ created' = [created EXCEPT ![q] = IF ok THEN @ + 1 ELSE @]
    /\ UNCHANGED <<exported, pinVars, restVars, value, closed>>

\* new_epoll_ctl without the cleanup of line 360: the context stays open
new_epoll_ctl_leak(q) ==
    /\ poller[q].pc = "new_epoll_ctl"
    /\ \E ok \in BOOLEAN :
         poller' = [poller EXCEPT ![q] =
                      IF ok
                      THEN [@ EXCEPT !.registered = TRUE,
                                     !.ready = (poller[q].stale \/ poller[q].edge),
                                     !.pc = "new_ret", !.res = <<"Ok">>]
                      ELSE [@ EXCEPT !.devfile = "closed",
                                     !.pc = "new_ret", !.res = <<"Err">>]]
    /\ UNCHANGED <<exported, pinVars, restVars, value, created, closed>>

\* new, lines 351-363: epoll_ctl(EpollCtlAdd) of devfile for
\* EPOLLPRI | EPOLLET.  Added, the file is polled once and put on the ready
\* list when it is priority-readable; refused, the epoll context is closed
\* (line 360), devfile is dropped and the error returned
new_epoll_ctl(q) ==
    /\ poller[q].pc = "new_epoll_ctl"
    /\ \E ok \in BOOLEAN :
         /\ poller' = [poller EXCEPT ![q] =
                         IF ok
                         THEN [@ EXCEPT !.registered = TRUE,
                                        !.ready = (poller[q].stale \/ poller[q].edge),
                                        !.pc = "new_ret", !.res = <<"Ok">>]
                         ELSE [@ EXCEPT !.epoll = "closed", !.devfile = "closed",
                                        !.pc = "new_ret", !.res = <<"Err">>]]
         /\ closed' = [closed EXCEPT ![q] = IF ok THEN @ ELSE @ + 1]
    /\ UNCHANGED <<exported, pinVars, restVars, value, created>>

\* new returns: Ok(PinPoller {..}), or the error and no PinPoller
new_return(q) ==
    /\ poller[q].pc = "new_ret"
    /\ poller' = [poller EXCEPT ![q] =
                    IF @.res = <<"Ok">>
                    THEN [@ EXCEPT !.st = "Ready", !.pc = "idle", !.res = <<"none">>]
                    ELSE NoPoller]
    /\ UNCHANGED <<exported, pinVars, restVars, value, created, closed>>

\* the kernel raises an edge event on pin n, whose value attribute now reads
\* c: every open descriptor of the attribute becomes priority-readable and
\* every epoll context it is registered with puts it on its ready list (an
\* event on a pin with no open descriptor changes only the value, which the
\* initial state leaves free)
Edge(n) ==
    /\ \E q \in Pollers : poller[q].devfile = "open" /\ poller[q].pin = n
    /\ \E c \in run.texts : value' = [value EXCEPT ![n] = c]
    /\ poller' = [q \in Pollers |->
                    IF poller[q].devfile = "open" /\ poller[q].pin = n
                    THEN [poller[q] EXCEPT !.edge = TRUE,
                                           !.ready = (@ \/ poller[q].registered)]
                    ELSE poller[q]]
    /\ UNCHANGED <<exported, pinVars, restVars, created, closed>>

\* poll(timeout_ms), entered
poll(q) ==
    /\ poller[q].st = "Ready"
    /\ poller[q].pc = "idle"
    /\ \E t \in run.timeouts :
         poller' = [poller EXCEPT ![q] =
                      [@ EXCEPT !.pc = "flush", !.timeout = t, !.flushed = 0,
                                !.woke = "none", !.res = <<"none">>]]
    /\ UNCHANGED <<exported, pinVars, restVars, value, created, closed>>

\* poll_flush without the read: poll goes straight to epoll_wait
poll_flush_skipped(q) ==
    /\ poller[q].pc = "flush"
    /\ poller' = [poller EXCEPT ![q] = [@ EXCEPT !.pc = "epoll_wait"]]
    /\ UNCHANGED <<exported, pinVars, restVars, value, created, closed>>

\* poll, line 384: try!(flush_input_from_file(&mut self.devfile, 255)); a
\* read from the start of the attribute is what the kernel takes as the
\* descriptor having seen the events so far
poll_flush(q) ==
    /\ poller[q].pc = "flush"
    /\ \E ok \in BOOLEAN :
         poller' = [poller EXCEPT ![q] =
                      IF ok
                      THEN [@ EXCEPT !.pc = "epoll_wait",
                                     !.flushed = flush_input_from_file(
                                         value[poller[q].pin], poller[q].at_start, FlushMax),
                                     !.stale = (@ /\ ~poller[q].at_start),
                                     !.edge = (@ /\ ~poller[q].at_start),
                                     !.at_start = FALSE]
                      ELSE [@ EXCEPT !.pc = "ret", !.res = <<"Err">>]]
    /\ UNCHANGED <<exported, pinVars, restVars, value, created, closed>>

\* an event is there for epoll_wait to deliver: the registered file is on
\* the ready list and, polled again, still priority-readable
Deliverable(r) == r.registered /\ r.ready /\ (r.stale \/ r.edge)

\* Delivered for a registration that ends with its first event
Delivered_oneshot(r) ==
    [r EXCEPT !.ready = FALSE, !.registered = FALSE, !.pc = "get_value",
              !.woke = IF r.edge THEN "edge" ELSE "stale"]

\* epoll_wait hands out the event: edge-triggered, the file leaves the ready
\* list; poll goes on to line 390
Delivered(r) ==
    [r EXCEPT !.ready = FALSE, !.pc = "get_value",
              !.woke = IF r.edge THEN "edge" ELSE "stale"]

\* poll, line 387: epoll_wait(self.epoll_fd, &mut events, timeout_ms) is
\* called: an event is delivered at once; with none and a timeout of 0 it
\* returns 0 (line 389: None); otherwise the thread blocks
poll_epoll_wait(q) ==
    /\ poller[q].pc = "epoll_wait"
    /\ poller' = [poller EXCEPT ![q] =
                    IF Deliverable(@)
                    THEN Delivered(@)
                    ELSE IF @.timeout = 0
                         THEN [@ EXCEPT !.ready = FALSE, !.pc = "ret", !.res = <<"None">>]
                         ELSE [@ EXCEPT !.ready = FALSE, !.pc = "blocked"]]
    /\ UNCHANGED <<exported, pinVars, restVars, value, created, closed>>

\* the blocked epoll_wait is woken by an event
poll_wake(q) ==
    /\ poller[q].pc = "blocked"
    /\ Deliverable(poller[q])
    /\ poller' = [poller EXCEPT ![q] = Delivered(@)]
    /\ UNCHANGED <<exported, pinVars, restVars, value, created, closed>>

\* the timeout of the blocked epoll_wait runs out: it returns 0, line 389
poll_timeout(q) ==
    /\ poller[q].pc = "blocked"
    /\ poller[q].timeout > 0
    /\ poller' = [poller EXCEPT ![q] = [@ EXCEPT !.pc = "ret", !.res = <<"None">>]]
    /\ UNCHANGED <<exported, pinVars, restVars, value, created, closed>>

\* epoll_wait fails (EINTR): try! returns the error, line 387
poll_wait_error(q) ==
    /\ poller[q].pc \in {"epoll_wait", "blocked"}
    /\ poller' = [poller EXCEPT ![q] = [@ EXCEPT !.pc = "ret", !.res = <<"Err">>]]
    /\ UNCHANGED <<exported, pinVars, restVars, value, created, closed>>

\* poll_get_value on one open file shared by the pollers of the pin: the
\* read takes the pending event from all of them
poll_get_value_shared(q) ==
    /\ poller[q].pc = "get_value"
    /\ LET v == get_value_from_file(value[poller[q].pin])
       IN  poller' = [b \in Pollers |->
             IF b = q
             THEN LET r == [poller[q] EXCEPT !.at_start = FALSE, !.stale = FALSE,
                                             !.edge = FALSE]
                  IN  IF v[1] = "Panic"
                      THEN [r EXCEPT !.pc = "panicked"]
                      ELSE IF v[1] = "Ok"
                           THEN [r EXCEPT !.pc = "ret", !.res = <<"Some", v[2]>>]
                           ELSE [r EXCEPT !.pc = "ret", !.res = <<"Err">>]
             ELSE IF poller[b].pin = poller[q].pin
                  THEN [poller[b] EXCEPT !.stale = FALSE, !.edge = FALSE]
                  ELSE poller[b]]
    /\ UNCHANGED <<exported, pinVars, restVars, value, created, closed>>

\* poll, line 390: Some(try!(get_value_from_file(&mut self.devfile))): the
\* seek (line 94) or the read (line 95) may fail; the read is from the start
poll_get_value(q) ==
    /\ poller[q].pc = "get_value"
    /\ \E io \in {"ok", "seek_err", "read_err"} :
         poller' = [poller EXCEPT ![q] =
            IF io = "seek_err"
            THEN [@ EXCEPT !.pc = "ret", !.res = <<"Err">>]
            ELSE IF io = "read_err"
            THEN [@ EXCEPT !.pc = "ret", !.res = <<"Err">>, !.at_start = TRUE]
            ELSE LET v == get_value_from_file(value[poller[q].pin])
                     r == [@ EXCEPT !.at_start = FALSE, !.stale = FALSE, !.edge = FALSE]
                 IN  IF v[1] = "Panic"
                     THEN [r EXCEPT !.pc = "panicked"]
                     ELSE IF v[1] = "Ok"
                          THEN [r EXCEPT !.pc = "ret", !.res = <<"Some", v[2]>>]
                          ELSE [r EXCEPT !.pc = "ret", !.res = <<"Err">>]]
    /\ UNCHANGED <<exported, pinVars, restVars, value, created, closed>>

\* poll_return of a poller that an error tears down
poll_return_closes(q) ==
    /\ poller[q].pc = "ret"
    /\ poller' = [poller EXCEPT ![q] =
                    IF @.res = <<"Err">>
                    THEN [@ EXCEPT !.pc = "idle", !.res = <<"none">>, !.st = "Closed",
                                   !.epoll = "closed", !.devfile = "closed",
                                   !.registered = FALSE, !.ready = FALSE]
                    ELSE [@ EXCEPT !.pc = "idle", !.res = <<"none">>]]
    /\ closed' = [closed EXCEPT ![q] = IF poller[q].res = <<"Err">> THEN @ + 1 ELSE @]
    /\ UNCHANGED <<exported, pinVars, restVars, value, created>>

\* poll returns its result to the caller
poll_return(q) ==
    /\ poller[q].pc = "ret"
    /\ poller' = [poller EXCEPT ![q] = [@ EXCEPT !.pc = "idle", !.res = <<"none">>]]
    /\ UNCHANGED <<exported, pinVars, restVars, value, created, closed>>

\* drop with the result of close discarded, as new does on its error path
drop_ignores_close(q) ==
    /\ poller[q].st = "Ready"
    /\ poller[q].pc \in {"idle", "panicked"}
    /\ \E ok \in BOOLEAN :
         poller' = [poller EXCEPT ![q] =
                      [@ EXCEPT !.st = "Closed", !.pc = "idle", !.epoll = "closed",
                                !.devfile = "closed", !.registered = FALSE,
                                !.ready = FALSE,
                                !.close_res = IF ok THEN "Ok" ELSE "Err",
                                !.drop_panic = FALSE]]
    /\ closed' = [closed EXCEPT ![q] = @ + 1]
    /\ UNCHANGED <<exported, pinVars, restVars, value, created>>

\* Drop for PinPoller, lines 396-401, when the owner lets go of the poller
\* or a panic in poll unwinds through it: close(self.epoll_fd).unwrap(),
\* then the fields are dropped, which closes devfile
drop(q) ==
    /\ poller[q].st = "Ready"
    /\ poller[q].pc \in {"idle", "panicked"}
    /\ \E ok \in BOOLEAN :
         poller' = [poller EXCEPT ![q] =
                      [@ EXCEPT !.st = "Closed", !.pc = "idle", !.epoll = "closed",
                                !.devfile = "closed", !.registered = FALSE,
                                !.ready = FALSE,
                                !.close_res = IF ok THEN "Ok" ELSE "Err",
                                !.drop_panic = ~ok]]
    /\ closed' = [closed EXCEPT ![q] = @ + 1]
    /\ UNCHANGED <<exported, pinVars, restVars, value, created>>

InitPoller ==
    /\ exported \in [Pins -> BOOLEAN]
    /\ value \in [Pins -> Contents]
    /\ actors = {}
    /\ pin_num = [p \in Handles |-> Pin_new(17)]
    /\ call = [p \in Handles |-> NoCall]
    /\ prev = [p \in Handles |-> FALSE]
    /\ poller = [q \in Pollers |-> NoPoller]
    /\ created = [q \in Pollers |-> 0]
    /\ closed = [q \in Pollers |-> 0]
    /\ run = WholeRun
    /\ attr = [n \in Pins |-> FreshAttr]
    /\ last_dir = [p \in Handles |-> "none"]
    /\ flush_call = NoFlush

PollStep(q) ==
    \/ poll_flush(q)
    \/ poll_epoll_wait(q)
    \/ poll_wake(q)
    \/ poll_timeout(q)
    \/ poll_get_value(q)
    \/ poll_return(q)

NextPoller ==
    \/ \E q \in Pollers :
          \/ PinPoller_new(q)
          \/ new_open(q)
          \/ new_epoll_create(q)
          \/ new_epoll_ctl(q)
          \/ new_return(q)
          \/ poll(q)
          \/ PollStep(q)
          \/ poll_wait_error(q)
          \/ drop(q)
    \/ \E n \in Pins : Edge(n)

SpecPoller == InitPoller /\ [][NextPoller]_vars

\* two owners, each with a poller of its own on the same or on different
\* pins, while the value attribute reads 0 or 1
PairRun ==
    [NoRun EXCEPT !.owners = {1, 2}, !.texts = {<<"0", "\n">>, <<"1", "\n">>},
                  !.timeouts = {500}, !.lives = 1]

InitPollerPair ==
    /\ exported = [n \in Pins |-> TRUE]
    /\ value = [n \in Pins |-> <<"0", "\n">>]
    /\ actors = {}
    /\ pin_num = [p \in Handles |-> Pin_new(17)]
    /\ call = [p \in Handles |-> NoCall]
    /\ prev = [p \in Handles |-> FALSE]
    /\ poller = [q \in Pollers |-> NoPoller]
    /\ created = [q \in Pollers |-> 0]
    /\ closed = [q \in Pollers |-> 0]
    /\ run = PairRun
    /\ attr = [n \in Pins |-> FreshAttr]
    /\ last_dir = [p \in Handles |-> "none"]
    /\ flush_call = NoFlush

SpecPollerPair == InitPollerPair /\ [][NextPoller]_vars

(***************************************************************************)
(* A handle and a poller side by side.                                     *)
(***************************************************************************)
\* Pin::get_poller, lines 319-321: PinPoller::new(self.pin_num)
get_poller(p, q) ==
    /\ p \in actors
    /\ call[p].pc = "idle"
    /\ PinPoller_new(q)
    /\ poller'[q].pin = pin_num[p]

\* one owner, whose poller waits with a timeout for the value to become 1,
\* and a handle that makes its pin an output, drives it high and asks for
\* rising edges
SystemRun ==
    [owners |-> {1}, texts |-> {<<"1", "\n">>}, timeouts |-> {500}, lives |-> 1,
     dirs |-> {"Out"}, levels |-> {1}, edges |-> {"RisingEdge"}]

InitSystem ==
    /\ exported = [n \in Pins |-> TRUE]
    /\ value = [n \in Pins |-> <<"0", "\n">>]
    /\ attr = [n \in Pins |-> FreshAttr]
    /\ actors = {1}
    /\ pin_num = [p \in Handles |-> Pin_new(17)]
    /\ call = [p \in Handles |-> NoCall]
    /\ prev = [p \in Handles |-> FALSE]
    /\ last_dir = [p \in Handles |-> "none"]
    /\ poller = [q \in Pollers |-> NoPoller]
    /\ created = [q \in Pollers |-> 0]
    /\ closed = [q \in Pollers |-> 0]
    /\ run = SystemRun
    /\ flush_call = NoFlush

NextSystem ==
    \/ NextPin
    \/ NextAttr
    \/ NextPoller
    \/ \E p \in Handles, q \in Pollers : get_poller(p, q)

SpecSystem == InitSystem /\ [][NextSystem]_vars

\* the thread that called poll runs, and a timeout that is set runs out
SpecPollerFair == SpecPoller /\ \A q \in Pollers : WF_vars(PollStep(q))

(***************************************************************************)
(* Properties of export, unexport and with_exported (SpecPin).             *)
(***************************************************************************)
\* no other acting handle is for the pin of handle p
Alone(p) == \A q \in actors \ {p} : pin_num[q] # pin_num[p]

\* handle p is about to return res from a call of method
Returning(p, method) == call[p].pc = "ret" /\ call[p].op = method

\* C1 as stated: in the state in which with_exported returns, whatever the
\* closure returned, the pin directory does not exist.
C1_Original ==
    \A p \in Handles : Returning(p, "with_exported") => ~exported[pin_num[p]]

C1_AloneAtReturn ==
    \A p \in Handles :
        (Returning(p, "with_exported") /\ call[p].res \in {"Ok", "ErrBody"} /\ Alone(p))
            => ~exported[pin_num[p]]

C1_UnexportStep ==
    \A p \in Handles :
        (/\ call[p].op = "with_exported"
         /\ call[p].pc # "ret"
         /\ call'[p].pc = "ret"
         /\ call'[p].res \in {"Ok", "ErrBody"})
            => ~exported'[pin_num[p]]

\* C1 amended: a with_exported that returns Ok or the closure's error (its
\* unexport did not fail) leaves no pin directory in the state in which its
\* unexport ends, and none in the state in which it returns when no other
\* handle acts on the same pin.
C1_Amended == [] C1_AloneAtReturn /\ [][C1_UnexportStep]_vars

C1_Witness ==
    \E p \in Handles :
        /\ Returning(p, "with_exported")
        /\ call[p].res = "ErrBody"
        /\ "unexport_write" \in call[p].did
        /\ ~exported[pin_num[p]]

\* C6: export() that follows at once an export() of the same handle that
\* returned Ok (no other handle acts on the pin) returns Ok, issues no write
\* to the export control file, and the pin is exported.
C6_ExportIdempotent ==
    \A p \in Handles :
        (Returning(p, "export") /\ call[p].again /\ Alone(p))
            => /\ call[p].res = "Ok"
               /\ call[p].did = {}
               /\ exported[pin_num[p]]

C6_Witness ==
    \E p \in Handles :
        Returning(p, "export") /\ call[p].again /\ Alone(p) /\ call[p].res = "Ok"

C7_AloneAtReturn ==
    \A p \in Handles :
        (Returning(p, "unexport") /\ call[p].res = "Ok" /\ Alone(p))
            => ~exported[pin_num[p]]

C7_LastStep ==
    \A p \in Handles :
        (/\ call[p].op = "unexport"
         /\ call[p].pc # "ret"
         /\ call'[p].pc = "ret"
         /\ call'[p].res = "Ok")
            => ~exported'[pin_num[p]]

C8_UnexportNoop ==
    [][\A p \in Handles :
          (/\ call[p].op = "unexport"
           /\ call[p].pc = "unexport_metadata"
           /\ ~exported[pin_num[p]]
           /\ call'[p] # call[p])
              => /\ call'[p].pc = "ret"
                 /\ call'[p].res = "Ok"
                 /\ call'[p].did = {}
                 /\ exported' = exported]_vars

C8_Witness ==
    \E p \in Handles :
        /\ Returning(p, "unexport")
        /\ call[p].res = "Ok"
        /\ call[p].did = {}
        /\ ~exported[pin_num[p]]

\* C9: the result of with_exported for every combination of the outcomes of
\* export, the closure and unexport: a failed export returns its error with
\* the closure not run and no unexport; a failed unexport returns its error
\* whatever the closure returned; the closure's error is returned when
\* unexport succeeded; Ok only when all three succeeded.
C9_ResultTable ==
    \A p \in Handles :
        Returning(p, "with_exported") =>
            LET c == call[p]
            IN  /\ c.ex # "Ok" =>
                     c.body = "none" /\ c.un = "none" /\ c.res = "ErrExport"
                /\ c.ex = "Ok" => c.body \in {"Ok", "Err"} /\ c.un # "none"
                /\ (c.ex = "Ok" /\ c.un # "Ok") => c.res = "ErrUnexport"
                /\ (c.ex = "Ok" /\ c.body = "Err" /\ c.un = "Ok") => c.res = "ErrBody"
                /\ c.res = "Ok" <=> (c.ex = "Ok" /\ c.body = "Ok" /\ c.un = "Ok")

C9_Witness ==
    \E p \in Handles :
        /\ Returning(p, "with_exported")
        /\ call[p].body = "Err"
        /\ call[p].un \notin {"none", "Ok"}
        /\ call[p].res = "ErrUnexport"

\* C10 as stated: when two handles export the same pin concurrently both
\* calls return Ok in every interleaving: the kernel's refusal of the second
\* write (EBUSY, the pin is exported already) is not returned as an error.
C10_Original ==
    \A p, q \in Handles :
        (/\ p # q
         /\ pin_num[p] = pin_num[q]
         /\ Returning(p, "export")
         /\ Returning(q, "export")
         /\ call[p].ex \in {"Ok", "EBUSY"}
         /\ call[q].ex \in {"Ok", "EBUSY"})
            => call[p].res = "Ok" /\ call[q].res = "Ok"

(***************************************************************************)
(* Properties of PinPoller (SpecPoller, SpecPollerFair).                   *)
(***************************************************************************)
\* the poller of owner q has ended its life: it was dropped, or new is
\* returning an error, or has returned one
LifetimeOver(q) ==
    \/ poller[q].st = "Closed"
    \/ poller[q].pc = "new_ret" /\ poller[q].res = <<"Err">>
    \/ poller[q].st = "none" /\ poller[q].pc = "idle"

\* C2: every epoll context created is closed exactly once: never more
\* close() calls than contexts, an open context is the one not closed yet,
\* and once the life of a poller is over (dropped, or new failed, also at
\* epoll_ctl) every context created has been closed.
C2_ReleasedOnce ==
    \A q \in Pollers :
        /\ closed[q] <= created[q]
        /\ poller[q].epoll = "open" <=> created[q] = closed[q] + 1
        /\ LifetimeOver(q) => closed[q] = created[q]

C2_Witness ==
    \E q \in Pollers :
        /\ poller[q].pc = "new_ret"
        /\ poller[q].res = <<"Err">>
        /\ poller[q].epoll = "closed"
        /\ created[q] = 1
        /\ closed[q] = 1

\* C3 as stated: woken by an event, poll returns Some(0), Some(1) or an
\* error: never Some(v) with v outside {0, 1}, and it never panics, whatever
\* the value attribute holds.
C3_Original ==
    \A q \in Pollers :
        /\ poller[q].pc # "panicked"
        /\ poller[q].res[1] = "Some" => poller[q].res[2] \in {0, 1}

\* C4 as stated: poll with timeout_ms >= 0 always returns.
C4_Original ==
    \A q \in Pollers :
        (poller[q].pc = "flush" /\ poller[q].timeout >= 0) ~> (poller[q].pc = "ret")

\* C5: poll returns Some only when an edge event was raised since the value
\* attribute was last read: epoll_wait never delivers the state a descriptor
\* has from not having been read (the flush has read it before every wait),
\* and no wait starts with that state left.
C5_NoSpuriousWake ==
    \A q \in Pollers :
        /\ poller[q].woke # "stale"
        /\ poller[q].res[1] = "Some" => poller[q].woke = "edge"
        /\ poller[q].pc \in {"epoll_wait", "blocked"} => ~poller[q].stale

C5_Witness ==
    \E q \in Pollers :
        /\ poller[q].pc = "ret"
        /\ poller[q].flushed > 0
        /\ poller[q].timeout > 0
        /\ poller[q].res = <<"None">>

\* C11 as stated: get_value on an exported pin whose value attribute it
\* has opened returns Ok(0) when the attribute holds "0\n", Ok(1) when it
\* holds "1\n", the error of an unexpected content for every other content,
\* and never a number other than 0 or 1.
C11_Original ==
    \A p \in Handles :
        (Returning(p, "get_value") /\ exported[pin_num[p]] /\ call[p].flags # {}) =>
            /\ value[pin_num[p]] = <<"0", "\n">> =>
                 (call[p].res = "Ok" /\ call[p].got = <<0>>)
            /\ value[pin_num[p]] = <<"1", "\n">> =>
                 (call[p].res = "Ok" /\ call[p].got = <<1>>)
            /\ value[pin_num[p]] \notin {<<"0", "\n">>, <<"1", "\n">>} =>
                 call[p].res = "ErrParse"
            /\ call[p].res = "Ok" => call[p].got[1] \in {0, 1}

\* C12 as stated: a get_direction that follows a set_direction(d) which
\* returned Ok on the same handle, and has opened the direction attribute,
\* returns In for d = In and Out for d = Out, High or Low; and no
\* get_direction returns High or Low.
C12_Original ==
    \A p \in Handles :
        Returning(p, "get_direction") =>
            /\ (call[p].after # "none" /\ call[p].flags # {}) =>
                 /\ call[p].res = "Ok"
                 /\ call[p].got = <<IF call[p].after = "In" THEN "In" ELSE "Out">>
            /\ call[p].res = "Ok" => call[p].got[1] \in {"In", "Out"}

\* the poll of poller a has been woken by an edge event and returns the
\* value it read
Consumed(a) ==
    poller[a].pc = "ret" /\ poller[a].res[1] = "Some" /\ poller[a].woke = "edge"

\* an edge event is pending at poller b: raised at its open descriptor, on
\* the ready list of its epoll context, not yet handed out
Pending(b) ==
    poller[b].devfile = "open" /\ poller[b].registered /\ poller[b].ready /\ poller[b].edge

\* the step is one of poller b alone
OwnStep(b) ==
    \A a \in Pollers \ {b} :
        poller'[a] = poller[a] /\ created'[a] = created[a] /\ closed'[a] = closed[a]

\* the step hands the pending event to the epoll_wait of poller b
WakesPoll(b) ==
    poller[b].pc \in {"epoll_wait", "blocked"} /\ poller'[b].pc = "get_value"

\* neither construction nor poll nor teardown of one poller affects the
\* other: a step changes two pollers only when it is an edge event on their
\* pin, which raises the event at each
C13_Frame ==
    \A b \in Pollers :
        (poller'[b] # poller[b] \/ created'[b] # created[b] \/ closed'[b] # closed[b]) =>
            \/ OwnStep(b)
            \/ /\ poller[b].devfile = "open"
               /\ poller'[b] = [poller[b] EXCEPT !.edge = TRUE,
                                                 !.ready = (@ \/ poller[b].registered)]
               /\ created'[b] = created[b]
               /\ closed'[b] = closed[b]

\* C13 as stated: when one poller's poll has consumed an edge event, the
\* event pending at another poller of the same pin stays pending, whatever
\* either poller does, until the other's poll is woken by it (or the other
\* is torn down); and no poller's construction, poll or teardown affects
\* the other.
C13_Original ==
    [][/\ C13_Frame
       /\ \A a, b \in Pollers :
            (/\ a # b
             /\ poller[a].pin = poller[b].pin
             /\ Consumed(a)
             /\ Pending(b)
             /\ poller'[b].devfile = "open"
             /\ ~WakesPoll(b)) => Pending(b)']_vars

\* C13, amended: each poller has its own pending event.  No step of one
\* poller changes the other, and an event pending at a poller stays pending,
\* whatever the other poller does, until the poller's own poll is woken by
\* it, or the poller itself reads the value file from its start (the flush
\* of a poll whose descriptor is at position 0, as in its first poll, or the
\* value read of a poll woken by an earlier event), or the poller's
\* descriptor is closed.
C13_Amended ==
    [][/\ C13_Frame
       /\ \A b \in Pollers :
            (Pending(b) /\ ~Pending(b)') =>
                /\ OwnStep(b)
                /\ \/ WakesPoll(b)
                   \/ poller[b].pc = "flush" /\ poller[b].at_start
                   \/ poller[b].pc = "get_value"
                   \/ poller'[b].devfile # "open"]_vars

C13_Witness ==
    \E a, b \in Pollers :
        /\ a # b
        /\ poller[a].pin = poller[b].pin
        /\ Consumed(a)
        /\ poller[b].pc = "get_value"
        /\ poller[b].woke = "edge"

\* the pin a step of poller q is about: the one new is called with, then
\* the one the poller holds
StepPin(q) ==
    IF poller[q].pc = "idle" /\ poller[q].st # "Ready"
    THEN poller'[q].pin
    ELSE poller[q].pin

\* export state, attribute contents and poller registrations of pin n are
\* left as they are
SamePin(n) ==
    /\ exported'[n] = exported[n]
    /\ value'[n] = value[n]
    /\ attr'[n] = attr[n]
    /\ \A q \in Pollers : poller[q].pin = n => poller'[q] = poller[q]

\* C14: every step of a call on a handle for pin A (export, unexport,
\* with_exported, the getters and setters, get_poller) and every step of a
\* poller for pin A (new, poll, drop, and the edge events it receives) leaves
\* the export state, the attribute contents and the pollers of every other
\* pin as they are.
C14_Independent ==
    [][/\ \A p \in Handles :
            call'[p] # call[p] => \A n \in Pins \ {pin_num[p]} : SamePin(n)
       /\ \A q \in Pollers :
            poller'[q] # poller[q] => \A n \in Pins \ {StepPin(q)} : SamePin(n)]_vars

C14_Witness ==
    \E p \in Handles, q \in Pollers :
        /\ Returning(p, "set_value")
        /\ call[p].res = "Ok"
        /\ poller[q].pin # pin_num[p]
        /\ poller[q].pc = "blocked"

\* C15: from the successful return of PinPoller::new to drop, the poller's
\* epoll context is open and holds the one registration new made, that of
\* the poller's own open value file for EPOLLPRI | EPOLLET; and no step of
\* poll adds, removes or changes it.
C15_OneRegistration ==
    /\ [](\A q \in Pollers :
            poller[q].st = "Ready" =>
                /\ poller[q].registered
                /\ poller[q].devfile = "open"
                /\ poller[q].epoll = "open")
    /\ [][\A q \in Pollers :
            (poller[q].st = "Ready" /\ poller'[q].st = "Ready") =>
                /\ poller'[q].registered = poller[q].registered
                /\ poller'[q].devfile = poller[q].devfile
                /\ poller'[q].epoll = poller[q].epoll]_vars

C15_Witness ==
    \E q \in Pollers :
        /\ poller[q].st = "Ready"
        /\ poller[q].pc = "ret"
        /\ poller[q].res[1] = "Some"
        /\ poller[q].registered

\* the statements of new, and those of poll
NewPcs == {"new_open", "new_epoll_create", "new_epoll_ctl", "new_ret"}

PollPcs == {"flush", "epoll_wait", "blocked", "get_value", "ret", "panicked"}

C17_CloseErrorFatal ==
    \A q \in Pollers :
        /\ poller[q].close_res = "Err" => poller[q].drop_panic
        /\ poller[q].drop_panic => (poller[q].st = "Closed" /\ poller[q].close_res = "Err")

C17_Witness ==
    \E q \in Pollers :
        /\ poller[q].st = "Closed"
        /\ poller[q].close_res = "Err"
        /\ poller[q].drop_panic

\* C18 as stated: flush_input_from_file(file, max) reads and discards at
\* most max bytes, however many bytes the file holds unread.
C18_Original ==
    flush_call.pc = "ret" => flush_call.read <= flush_call.max

\* C19 as stated: no step of get_direction, get_value or get_edge changes
\* the export state of a pin or the content of an attribute, whether the
\* call returns a value or an error; and the attribute file is opened for
\* reading only, never to be created or truncated.
C19_Original ==
    /\ [][\A p \in Handles :
            (call[p].op \in Getters /\ call'[p] # call[p]) =>
                (exported' = exported /\ value' = value /\ attr' = attr)]_vars
    /\ [](\A p \in Handles :
            call[p].op \in Getters =>
                call[p].flags \cap {"O_WRONLY", "O_RDWR", "O_CREAT", "O_TRUNC"} = {})

\* C20: when PinPoller::new returns an error no descriptor is left open.
\* If the open of the value file failed (as it does when the pin is not
\* exported) there is no file and no epoll context was created; if
\* epoll_create failed the file is closed and there is no context; if the
\* registration failed the context and the file are both closed; and every
\* epoll context the owner created has been closed.
C20_FailedNewClosesAll ==
    \A q \in Pollers :
        poller[q].pc = "new_ret" =>
            /\ ~exported[poller[q].pin] => poller[q].res = <<"Err">>
            /\ poller[q].res = <<"Err">> =>
                 /\ poller[q].devfile \in {"none", "closed"}
                 /\ poller[q].epoll \in {"none", "closed"}
                 /\ ~poller[q].registered
                 /\ poller[q].devfile = "none" => poller[q].epoll = "none"
                 /\ poller[q].epoll = "closed" => poller[q].devfile = "closed"
                 /\ created[q] = closed[q]

C20_Witness ==
    \E q \in Pollers :
        /\ poller[q].pc = "new_ret"
        /\ poller[q].res = <<"Err">>
        /\ poller[q].devfile = "closed"
        /\ poller[q].epoll = "none"
        /\ created[q] = 1

====
